---- MODULE Spec2Model ----
\* Verification model of the layout-to-markup services:
\*   app/services/xlsx_to_html.py   convert_xlsx_to_html
\*   app/services/pdf_analyzer.py   _rgba_to_hex, _css_escape, _luminance_from_hex,
\*                                  _map_pdf_thickness_to_css, _border_css_from,
\*                                  extract_layout, _build_page_absolute
\*   app/services/html_builder.py   _css_escape, _is_dark, _build_page_absolute,
\*                                  _build_page_semantic, build_from_pdf_layout
\*   app/main.py                    analyze_pdf
\*
\* Strings whose characters matter (colours, escaped text) are sequences of
\* one-character strings.  None is the Python None.
EXTENDS Integers, Sequences, FiniteSets, TLC

VARIABLES
    \* ---- convert_xlsx_to_html ----
    ws,          \* the worksheet: max_row, max_column, ranges, column_dimensions
    xpc,         \* position in convert_xlsx_to_html
    col,         \* loop variable of the column-width loop
    col_widths,  \* list col_widths
    merges,      \* dict merges: anchor -> (rows, columns)
    r,           \* loop variable r
    c,           \* loop variable c
    html,        \* list html (xlsx path)
    \* ---- PDF path ----
    doc,         \* the decoded page as the extractor sees it: spans, drawings, images
    builder,     \* which builder renders the layout
    mode,        \* rendering mode
    scale,       \* scale factor (a rational [num, den])
    page,        \* the layout page {width, height, elements}
    ppc,         \* position in the PDF path
    idx,         \* index of the next element of page.elements
    out,         \* list html (PDF path)
    \* ---- pure helpers applied to drawn inputs ----
    fin,         \* the argument
    fout,        \* the result
    fpc          \* "ready" before the call, "done" after

xvars == <<ws, xpc, col, col_widths, merges, r, c, html>>
pvars == <<doc, builder, mode, scale, page, ppc, idx, out>>
fvars == <<fin, fout, fpc>>
vars  == <<ws, xpc, col, col_widths, merges, r, c, html,
           doc, builder, mode, scale, page, ppc, idx, out, fin, fout, fpc>>

None == "None"

\* ------------------------------------------------------------------ bounds
MaxRow    == 2
MaxCol    == 2
MaxMerges == 2
MaxWideCol == 27

\* ------------------------------------------------------------------ generic helpers
RECURSIVE SeqsUpTo(_, _)
SeqsUpTo(S, n) ==
    IF n = 0 THEN {<<>>}
    ELSE LET shorter == SeqsUpTo(S, n - 1)
         IN  shorter \cup {Append(s, x) : s \in {t \in shorter : Len(t) = n - 1}, x \in S}

Min(a, b) == IF a <= b THEN a ELSE b
Max(a, b) == IF a >= b THEN a ELSE b

\* ================================================================== strings and numbers

TRANSPARENT == <<"t", "r", "a", "n", "s", "p", "a", "r", "e", "n", "t">>

HexDigits == <<"0", "1", "2", "3", "4", "5", "6", "7", "8", "9", "A", "B", "C", "D", "E", "F">>
LowerHex  == <<"0", "1", "2", "3", "4", "5", "6", "7", "8", "9", "a", "b", "c", "d", "e", "f">>

\* the digits of n >= 0 in base 16, uppercase
RECURSIVE HexOf(_)
HexOf(n) == IF n < 16 THEN <<HexDigits[n + 1]>> ELSE HexOf(n \div 16) \o <<HexDigits[(n % 16) + 1]>>

\* f"{n:02X}": sign, then the digits zero-padded so that the whole is at least 2 wide
Format02X(n) ==
    IF n >= 0
    THEN IF n < 16 THEN <<"0">> \o HexOf(n) ELSE HexOf(n)
    ELSE <<"-">> \o HexOf(0 - n)

IsHexChar(ch) == \E i \in 1..16 : HexDigits[i] = ch \/ LowerHex[i] = ch
HexVal(ch) == (CHOOSE i \in 1..16 : HexDigits[i] = ch \/ LowerHex[i] = ch) - 1

RECURSIVE HexDigitsVal(_)
HexDigitsVal(str) ==
    IF str = <<>> THEN 0
    ELSE HexDigitsVal(SubSeq(str, 1, Len(str) - 1)) * 16 + HexVal(str[Len(str)])

\* int(s, 16) on a slice of a colour string: [ok |-> FALSE] is ValueError.
ParseHex(str) ==
    LET signed == str # <<>> /\ str[1] \in {"-", "+"}
        digits == IF signed THEN Tail(str) ELSE str
    IN  IF digits = <<>> \/ \E i \in 1..Len(digits) : ~IsHexChar(digits[i])
        THEN [ok |-> FALSE, v |-> 0]
        ELSE [ok |-> TRUE,
              v  |-> IF signed /\ str[1] = "-" THEN 0 - HexDigitsVal(digits)
                     ELSE HexDigitsVal(digits)]

\* s[a:b] with 0 <= a <= b (Python slice: clipped to the string)
Slice(str, a, b) == SubSeq(str, a + 1, Min(b, Len(str)))

\* ---- IEEE double arithmetic of the luminance sum ----
\* A double x with 0 <= x < 256 that is a multiple of 2^-56 is kept as the natural
\* number x * 2^56, written in five 16-bit limbs, least significant first.  Every
\* value of the sum 0.299*r + 0.587*g + 0.114*b has this form.
Limb == 65536

RECURSIVE PowTwo(_)
PowTwo(k) == IF k = 0 THEN 1 ELSE 2 * PowTwo(k - 1)

RECURSIVE MulCarry(_, _, _, _)
MulCarry(a, k, i, carry) ==
    IF i > Len(a) THEN <<>>
    ELSE LET t == a[i] * k + carry
         IN  <<t % Limb>> \o MulCarry(a, k, i + 1, t \div Limb)

RECURSIVE AddCarry(_, _, _, _)
AddCarry(a, b, i, carry) ==
    IF i > Len(a) THEN <<>>
    ELSE LET t == a[i] + b[i] + carry
         IN  <<t % Limb>> \o AddCarry(a, b, i + 1, t \div Limb)

RECURSIVE BitLenInt(_)
BitLenInt(n) == IF n = 0 THEN 0 ELSE 1 + BitLenInt(n \div 2)

BitLen(a) ==
    IF \A i \in 1..Len(a) : a[i] = 0 THEN 0
    ELSE LET top == CHOOSE i \in 1..Len(a) : a[i] # 0 /\ \A j \in (i + 1)..Len(a) : a[j] = 0
         IN  16 * (top - 1) + BitLenInt(a[top])

\* a <= b
LimbsLeq(a, b) ==
    \/ a = b
    \/ \E i \in 1..Len(a) : a[i] < b[i] /\ \A j \in (i + 1)..Len(a) : a[j] = b[j]

\* Round to 53 significant bits, to nearest, ties to even (at most 11 bits go).
Round53(a) ==
    LET d == BitLen(a) - 53
    IN  IF d <= 0 THEN a
        ELSE LET unit  == PowTwo(d)
                 low   == a[1] % unit
                 odd   == (a[1] \div unit) % 2 = 1
                 base  == [a EXCEPT ![1] = a[1] - low]
                 up    == 2 * low > unit \/ (2 * low = unit /\ odd)
             IN  IF up THEN AddCarry(base, <<unit, 0, 0, 0, 0>>, 1, 0) ELSE base

\* the doubles nearest 0.299, 0.587 and 0.114, times 2^56:
\*   21545220617340452, 42297807700263696, 8214565720323785
D0299 == <<1572, 38273, 35651, 76, 0>>
D0587 == <<33552, 51904, 17825, 150, 0>>
D0114 == <<30409, 40894, 12058, 29, 0>>

\* the double n.0 for an integer 0 <= n < 256
DInt(n) == <<0, 0, 0, n * 256, 0>>

DMul(k, n)  == Round53(MulCarry(k, n, 1, 0))
DAdd(x, y)  == Round53(AddCarry(x, y, 1, 0))

\* 0.299*r + 0.587*g + 0.114*b, evaluated left to right in doubles
LumaSum(rr, gg, bb) == DAdd(DAdd(DMul(D0299, rr), DMul(D0587, gg)), DMul(D0114, bb))

\* ---- fixed point for lengths ----
\* Lengths, thicknesses and font sizes are multiples of 1/640; the inputs drawn below
\* are dyadic, so the products with scale and 0.75 are exact in doubles as well.
Fx(n) == n * 640
FxFrac(n, d) == (n * 640) \div d
MulRat(x, n, d) == (x * n) \div d

\* ================================================================== pdf_analyzer.py helpers

BLACK == <<"#", "0", "0", "0", "0", "0", "0">>

\* A raw colour value: k = "absent" (no such key), "none", "int", "seq" (list or tuple,
\* vals its components) or "other".  A component is [t |-> "int" | "float" | "str" |
\* "none", v]; the v of a float is in thousandths.
Raw(kind, vals) == [k |-> kind, vals |-> vals]
IntC(n)   == [t |-> "int", v |-> n]
FloatC(n) == [t |-> "float", v |-> n]
StrC      == [t |-> "str", v |-> 0]
NoneC     == [t |-> "none", v |-> 0]

Returned(val) == [raised |-> FALSE, val |-> val]
Raised        == [raised |-> TRUE, val |-> <<>>]

TruncDiv(n, d) == IF n >= 0 THEN n \div d ELSE 0 - ((0 - n) \div d)

\* int(x): ValueError on a non-numeric string, TypeError on None
PyInt(x) ==
    IF x.t = "int" THEN [ok |-> TRUE, v |-> x.v]
    ELSE IF x.t = "float" THEN [ok |-> TRUE, v |-> TruncDiv(x.v, 1000)]
    ELSE [ok |-> FALSE, v |-> 0]

\* isinstance(v, float) and 0.0 <= v <= 1.0
IsUnitFloat(x) == x.t = "float" /\ 0 <= x.v /\ x.v <= 1000

\* vals[3] == 0
IsZero(x) == x.t \in {"int", "float"} /\ x.v = 0

\* pdf_analyzer._rgba_to_hex
RgbaToHex(rgba) ==
    IF rgba.k = "none" THEN Returned(TRANSPARENT)
    ELSE IF rgba.k = "int" THEN Returned(BLACK)
    ELSE IF rgba.k = "seq" /\ Len(rgba.vals) >= 3
    THEN LET unit == \A i \in 1..3 : IsUnitFloat(rgba.vals[i])
             ch(i) == IF unit THEN [ok |-> TRUE, v |-> (rgba.vals[i].v * 255) \div 1000]
                      ELSE PyInt(rgba.vals[i])
         IN  IF \E i \in 1..3 : ~ch(i).ok THEN Raised
             ELSE IF Len(rgba.vals) = 4 /\ IsZero(rgba.vals[4]) THEN Returned(TRANSPARENT)
             ELSE Returned(<<"#">> \o Format02X(ch(1).v) \o Format02X(ch(2).v)
                                   \o Format02X(ch(3).v))
    ELSE Returned(BLACK)

\* text.replace(ch, rep) for a one-character ch
RECURSIVE Replace(_, _, _)
Replace(text, ch, rep) ==
    IF text = <<>> THEN <<>>
    ELSE (IF Head(text) = ch THEN rep ELSE <<Head(text)>>) \o Replace(Tail(text), ch, rep)

AMP == <<"&", "a", "m", "p", ";">>
LT  == <<"&", "l", "t", ";">>
GT  == <<"&", "g", "t", ";">>

\* pdf_analyzer._css_escape, for a str argument
PaCssEscape(text) == Replace(Replace(Replace(text, "&", AMP), "<", LT), ">", GT)

\* html_builder._css_escape
HbCssEscape(text) == Replace(Replace(Replace(text, "<", LT), ">", GT), "&", AMP)

\* pdf_analyzer._luminance_from_hex, as a double (see LumaSum)
LuminanceFromHex(hexcol) ==
    IF hexcol = <<>> \/ hexcol = TRANSPARENT THEN DInt(255)
    ELSE LET rr == ParseHex(Slice(hexcol, 1, 3))
             gg == ParseHex(Slice(hexcol, 3, 5))
             bb == ParseHex(Slice(hexcol, 5, 7))
         IN  IF rr.ok /\ gg.ok /\ bb.ok THEN LumaSum(rr.v, gg.v, bb.v) ELSE DInt(255)

\* pdf_analyzer._map_pdf_thickness_to_css; sc is the scale [num, den]
MapPdfThicknessToCss(thickness, sc) ==
    IF thickness = 0 THEN FxFrac(1, 2)
    ELSE LET css_px == MulRat(MulRat(thickness, sc.num, sc.den), 3, 4)
         IN  Max(FxFrac(1, 5), Min(css_px, Fx(3)))

One == [num |-> 1, den |-> 1]

NoBorder == [none |-> TRUE, th |-> 0, style |-> "", color |-> <<>>]

\* pdf_analyzer._border_css_from
BorderCssFrom(stroke_hex, thickness) ==
    LET css_th == MapPdfThicknessToCss(thickness, One)
        lum    == LuminanceFromHex(stroke_hex)
        style  == IF LimbsLeq(lum, DInt(230)) THEN "solid" ELSE "dotted"
    IN  IF stroke_hex = TRANSPARENT THEN NoBorder
        ELSE [none |-> FALSE, th |-> css_th, style |-> style, color |-> stroke_hex]

\* html_builder._is_dark: [raised |-> TRUE] is the ValueError of int(..., 16)
IsDark(stroke_hex) ==
    LET rr == ParseHex(Slice(stroke_hex, 1, 3))
        gg == ParseHex(Slice(stroke_hex, 3, 5))
        bb == ParseHex(Slice(stroke_hex, 5, 7))
    IN  IF rr.ok /\ gg.ok /\ bb.ok
        THEN [raised |-> FALSE,
              dark   |-> LET lum == LumaSum(rr.v, gg.v, bb.v)
                         IN  LimbsLeq(lum, DInt(128)) /\ lum # DInt(128)]
        ELSE [raised |-> TRUE, dark |-> FALSE]

\* ================================================================== the PDF path

MaxPaths == 1

\* ---- what PyMuPDF hands to extract_layout for one page ----
BlackF == Raw("seq", <<FloatC(0), FloatC(0), FloatC(0)>>)
WhiteF == Raw("seq", <<FloatC(1000), FloatC(1000), FloatC(1000)>>)
GreyF  == Raw("seq", <<FloatC(500), FloatC(500), FloatC(500)>>)
YellowF == Raw("seq", <<FloatC(1000), FloatC(1000), FloatC(0)>>)
KeyAbsent == Raw("absent", <<>>)
KeyNone   == Raw("none", <<>>)

\* path.get("stroke", (0, 0, 0, 1)), path.get("fill", (1, 1, 1, 0))
StrokeDefault == Raw("seq", <<IntC(0), IntC(0), IntC(0), IntC(1)>>)
FillDefault   == Raw("seq", <<IntC(1), IntC(1), IntC(1), IntC(0)>>)
SpanColorDefault == Raw("seq", <<IntC(0), IntC(0), IntC(0), IntC(1)>>)

GetOr(raw, default) == IF raw.k = "absent" THEN default ELSE raw

\* an item of a drawing: ("re", Rect) with corners a, b, ("l", p0, p1), or a curve
Item(kind, a, b) == [kind |-> kind, a |-> a, b |-> b]
ReItem == Item("re", <<Fx(50), Fx(60)>>, <<Fx(250), Fx(160)>>)
LnItem == Item("l", <<Fx(300), Fx(90)>>, <<Fx(50), Fx(90)>>)
CvItem == Item("c", <<Fx(0), Fx(0)>>, <<Fx(10), Fx(10)>>)

\* width: 0 stands for a falsy width (None or 0), WidthAbsent for a missing key
WidthAbsent == 0 - 1
Path(stroke, fill, width, items) ==
    [stroke |-> stroke, fill |-> fill, width |-> width, items |-> items]

RawPaths ==
    { Path(KeyAbsent, KeyAbsent, Fx(1), <<ReItem>>),
      Path(KeyNone, YellowF, 0, <<ReItem>>),
      Path(WhiteF, KeyNone, Fx(5), <<LnItem>>),
      Path(BlackF, KeyNone, FxFrac(1, 4), <<LnItem>>),
      Path(BlackF, KeyNone, Fx(1), <<CvItem>>),
      Path(GreyF, KeyNone, WidthAbsent, <<ReItem, LnItem>>) }

Span(text, color) ==
    [bbox |-> <<Fx(10), Fx(20), Fx(100), Fx(40)>>, text |-> text,
     font |-> "Helvetica", size |-> Fx(12), color |-> color]

RawSpans ==
    { Span(<<"a", "<", "b">>, Raw("int", <<>>)),
      Span(<<" ">>, Raw("int", <<>>)),
      Span(<<"&">>, KeyAbsent) }

\* an image: ok is whether fitz.Pixmap succeeded; rect is its first image rect
RawImage(ok, rect) == [ok |-> ok, rect |-> rect]
RawImages ==
    { RawImage(TRUE, <<Fx(10), Fx(10), Fx(110), Fx(60)>>),
      RawImage(TRUE, <<Fx(0), Fx(0), Fx(500), Fx(200)>>),
      RawImage(FALSE, <<0, 0, 0, 0>>) }

AtMostOne(S) == {<<>>} \cup {<<x>> : x \in S}

Docs ==
    {[width |-> Fx(612), height |-> Fx(792), spans |-> sp, drawings |-> dr, images |-> im] :
        sp \in AtMostOne(RawSpans), dr \in SeqsUpTo(RawPaths, MaxPaths),
        im \in AtMostOne(RawImages)}

\* ---- extract_layout ----
TextEl(sp) ==
    [type |-> "text", bbox |-> sp.bbox, text |-> sp.text,
     font |-> [name |-> sp.font, size |-> sp.size],
     color |-> RgbaToHex(GetOr(sp.color, SpanColorDefault)).val]

\* thickness = path.get("width", 1) or 1
PathThickness(path) == IF path.width = WidthAbsent \/ path.width = 0 THEN Fx(1) ELSE path.width

RectEl(bbox, stroke, fill, thickness) ==
    [type |-> "rect", bbox |-> bbox, stroke |-> stroke, fill |-> fill,
     thickness |-> thickness]

\* the elements of one drawing item: "re" and "l" give a rect, anything else nothing
ItemEls(path, item) ==
    LET stroke == RgbaToHex(GetOr(path.stroke, StrokeDefault)).val
        fill   == RgbaToHex(GetOr(path.fill, FillDefault)).val
    IN  IF item.kind = "re"
        THEN <<RectEl(<<item.a[1], item.a[2], item.b[1], item.b[2]>>, stroke, fill,
                      PathThickness(path))>>
        ELSE IF item.kind = "l"
        THEN <<RectEl(<<Min(item.a[1], item.b[1]), Min(item.a[2], item.b[2]),
                        Max(item.a[1], item.b[1]), Max(item.a[2], item.b[2])>>,
                      stroke, TRANSPARENT, PathThickness(path))>>
        ELSE <<>>

RECURSIVE PathEls(_, _)
PathEls(path, items) ==
    IF items = <<>> THEN <<>> ELSE ItemEls(path, Head(items)) \o PathEls(path, Tail(items))

RECURSIVE DrawingEls(_)
DrawingEls(paths) ==
    IF paths = <<>> THEN <<>>
    ELSE PathEls(Head(paths), Head(paths).items) \o DrawingEls(Tail(paths))

ImageEl(img) ==
    IF img.ok THEN [type |-> "image", bbox |-> img.rect, image_bytes |-> "png"]
    ELSE [type |-> "image", bbox |-> <<0, 0, 0, 0>>, image_bytes |-> None]

\* a colour conversion of the page raises
ExtractRaises(d) ==
    \/ \E i \in 1..Len(d.spans) : RgbaToHex(GetOr(d.spans[i].color, SpanColorDefault)).raised
    \/ \E i \in 1..Len(d.drawings) :
          \/ RgbaToHex(GetOr(d.drawings[i].stroke, StrokeDefault)).raised
          \/ RgbaToHex(GetOr(d.drawings[i].fill, FillDefault)).raised

\* the page extract_layout builds: texts, then shapes, then images
ExtractLayout(d) ==
    [width |-> d.width, height |-> d.height,
     elements |-> [i \in 1..Len(d.spans) |-> TextEl(d.spans[i])]
                  \o DrawingEls(d.drawings)
                  \o [i \in 1..Len(d.images) |-> ImageEl(d.images[i])]]

\* ---- the two builders ----
\* One entry of the list html of a builder.  el is the index of the element it was
\* written for; z is the z-index written (NoZ: none); border.decl is whether a border
\* declaration is written.  Lengths are in 1/640 px.
NoZ == 0
NoDecl == [decl |-> FALSE, th |-> 0, style |-> "", color |-> <<>>]
Decl(th, style, color) == [decl |-> TRUE, th |-> th, style |-> style, color |-> color]

Entry(kind, el, left, top, w, h, z, border, text, capped) ==
    [kind |-> kind, el |-> el, left |-> left, top |-> top, w |-> w, h |-> h, z |-> z,
     border |-> border, text |-> text, capped |-> capped]

Plain(kind, w, h) == Entry(kind, 0, 0, 0, w, h, NoZ, NoDecl, <<>>, FALSE)

\* el.get(key, default) for the keys read with a default
GetStroke(e, default)    == IF "stroke" \in DOMAIN e THEN e.stroke ELSE default
GetThickness(e, default) == IF "thickness" \in DOMAIN e THEN e.thickness ELSE default

\* html_builder._build_page_absolute, text branch
HbTextEntry(e, i) ==
    Entry("text", i, e.bbox[1], e.bbox[2], 0, 0, NoZ, NoDecl, HbCssEscape(e.text), FALSE)

\* html_builder._build_page_absolute, rect branch (after _is_dark returned dark)
HbRectEntry(e, i, dark) ==
    LET border_color == GetStroke(e, <<"#", "0", "0", "0">>)
    IN  Entry("rect", i, e.bbox[1], e.bbox[2],
              Max(0, e.bbox[3] - e.bbox[1]), Max(0, e.bbox[4] - e.bbox[2]), NoZ,
              Decl(GetThickness(e, Fx(1)), IF dark THEN "solid" ELSE "none", border_color),
              <<>>, FALSE)

\* html_builder._build_page_absolute, image branch
HbImageEntry(e, i) ==
    Entry("image", i, e.bbox[1], e.bbox[2], e.bbox[3] - e.bbox[1], e.bbox[4] - e.bbox[2],
          NoZ, NoDecl, <<>>, FALSE)

\* pdf_analyzer._build_page_absolute, text branch
PaTextEntry(e, i, sc) ==
    Entry("text", i, MulRat(e.bbox[1], sc.num, sc.den),
          MulRat(e.bbox[2], sc.num, sc.den) - MulRat(e.font.size, 4, 5),
          0, 0, 10, NoDecl, PaCssEscape(e.text), FALSE)

\* pdf_analyzer._build_page_absolute, rect branch
PaRectEntry(e, i, sc) ==
    LET x0s == MulRat(e.bbox[1], sc.num, sc.den)
        y0s == MulRat(e.bbox[2], sc.num, sc.den)
        x1s == MulRat(e.bbox[3], sc.num, sc.den)
        y1s == MulRat(e.bbox[4], sc.num, sc.den)
        stroke == GetStroke(e, TRANSPARENT)
        css_thickness == MapPdfThicknessToCss(GetThickness(e, Fx(1)), sc)
        border_css == BorderCssFrom(stroke, css_thickness)
    IN  Entry("rect", i, x0s, y0s, Max(0, x1s - x0s), Max(0, y1s - y0s), 1,
              IF border_css.none THEN NoDecl
              ELSE Decl(border_css.th, border_css.style, border_css.color),
              <<>>, FALSE)

\* pdf_analyzer._build_page_absolute, image branch
PaImageEntry(e, i, sc) ==
    LET x0s == MulRat(e.bbox[1], sc.num, sc.den)
        y0s == MulRat(e.bbox[2], sc.num, sc.den)
        w   == Max(0, MulRat(e.bbox[3], sc.num, sc.den) - x0s)
        h   == Max(0, MulRat(e.bbox[4], sc.num, sc.den) - y0s)
    IN  Entry("image", i, x0s, y0s, w, h, 5, NoDecl, <<>>, w > Fx(300) \/ h > Fx(300))

\* el.get('text', '').strip() is empty
Blank(text) == \A i \in 1..Len(text) : text[i] \in {" ", "\t", "\n"}

Scales == {[num |-> 1, den |-> 2], One, [num |-> 2, den |-> 1]}

\* analyze_pdf (main.py) renders with html_builder and has no scale;
\* build_from_pdf_bytes renders with pdf_analyzer under a scale and ignores mode.
PdfConfigs ==
    {[builder |-> "html_builder", mode |-> m, scale |-> One] : m \in {"absolute", "semantic"}}
    \cup {[builder |-> "pdf_analyzer", mode |-> m, scale |-> sc] :
             m \in {"absolute", "semantic"}, sc \in Scales}

Cur == page.elements[idx]
More == ppc = "elements" /\ idx <= Len(page.elements)
Hb == builder = "html_builder"
Pa == builder = "pdf_analyzer"

\* layout = extract_layout(data)
Extract ==
    /\ ppc = "extract"
    /\ IF ExtractRaises(doc)
       THEN ppc' = "raised" /\ UNCHANGED page
       ELSE ppc' = "page" /\ page' = ExtractLayout(doc)
    /\ UNCHANGED <<doc, builder, mode, scale, idx, out, xvars, fvars>>

\* html = ['<div class="page" ...>'] (html_builder; pdf_analyzer scales the size)
BeginPage ==
    /\ ppc = "page" /\ ~(Hb /\ mode = "semantic")
    /\ out' = <<Plain("page", MulRat(page.width, scale.num, scale.den),
                      MulRat(page.height, scale.num, scale.den))>>
    /\ idx' = 1 /\ ppc' = "elements"
    /\ UNCHANGED <<doc, builder, mode, scale, page, xvars, fvars>>

\* lines = ['<section class="page-semantic">']
BeginSemantic ==
    /\ ppc = "page" /\ Hb /\ mode = "semantic"
    /\ out' = <<Plain("section", 0, 0)>>
    /\ idx' = 1 /\ ppc' = "elements"
    /\ UNCHANGED <<doc, builder, mode, scale, page, xvars, fvars>>

\* _build_page_semantic: a text with non-blank content becomes a paragraph
HbSemanticText ==
    /\ More /\ Hb /\ mode = "semantic"
    /\ Cur.type = "text" /\ ~Blank(Cur.text)
    /\ out' = Append(out, Entry("p", idx, 0, 0, 0, 0, NoZ, NoDecl, HbCssEscape(Cur.text), FALSE))
    /\ idx' = idx + 1
    /\ UNCHANGED <<doc, builder, mode, scale, page, ppc, xvars, fvars>>

\* _build_page_semantic: anything else is dropped
HbSemanticSkip ==
    /\ More /\ Hb /\ mode = "semantic"
    /\ ~(Cur.type = "text" /\ ~Blank(Cur.text))
    /\ idx' = idx + 1
    /\ UNCHANGED <<doc, builder, mode, scale, page, ppc, out, xvars, fvars>>

HbText ==
    /\ More /\ Hb /\ mode # "semantic" /\ Cur.type = "text"
    /\ out' = Append(out, HbTextEntry(Cur, idx))
    /\ idx' = idx + 1
    /\ UNCHANGED <<doc, builder, mode, scale, page, ppc, xvars, fvars>>

\* the rect branch: _is_dark(border_color) returns
HbRect ==
    /\ More /\ Hb /\ mode # "semantic" /\ Cur.type = "rect"
    /\ ~IsDark(GetStroke(Cur, <<"#", "0", "0", "0">>)).raised
    /\ out' = Append(out, HbRectEntry(Cur, idx, IsDark(GetStroke(Cur, <<"#", "0", "0", "0">>)).dark))
    /\ idx' = idx + 1
    /\ UNCHANGED <<doc, builder, mode, scale, page, ppc, xvars, fvars>>

\* the rect branch: int(stroke_hex[1:3], 16) raises ValueError, which nothing catches
HbRectRaises ==
    /\ More /\ Hb /\ mode # "semantic" /\ Cur.type = "rect"
    /\ IsDark(GetStroke(Cur, <<"#", "0", "0", "0">>)).raised
    /\ ppc' = "raised"
    /\ UNCHANGED <<doc, builder, mode, scale, page, idx, out, xvars, fvars>>

HbImage ==
    /\ More /\ Hb /\ mode # "semantic" /\ Cur.type = "image" /\ Cur.image_bytes # None
    /\ out' = Append(out, HbImageEntry(Cur, idx))
    /\ idx' = idx + 1
    /\ UNCHANGED <<doc, builder, mode, scale, page, ppc, xvars, fvars>>

\* an image without bytes matches no branch
HbSkip ==
    /\ More /\ Hb /\ mode # "semantic" /\ Cur.type = "image" /\ Cur.image_bytes = None
    /\ idx' = idx + 1
    /\ UNCHANGED <<doc, builder, mode, scale, page, ppc, out, xvars, fvars>>

PaText ==
    /\ More /\ Pa /\ Cur.type = "text"
    /\ out' = Append(out, PaTextEntry(Cur, idx, scale))
    /\ idx' = idx + 1
    /\ UNCHANGED <<doc, builder, mode, scale, page, ppc, xvars, fvars>>

PaRect ==
    /\ More /\ Pa /\ Cur.type = "rect"
    /\ out' = Append(out, PaRectEntry(Cur, idx, scale))
    /\ idx' = idx + 1
    /\ UNCHANGED <<doc, builder, mode, scale, page, ppc, xvars, fvars>>

PaImage ==
    /\ More /\ Pa /\ Cur.type = "image" /\ Cur.image_bytes # None
    /\ out' = Append(out, PaImageEntry(Cur, idx, scale))
    /\ idx' = idx + 1
    /\ UNCHANGED <<doc, builder, mode, scale, page, ppc, xvars, fvars>>

PaSkip ==
    /\ More /\ Pa /\ Cur.type = "image" /\ Cur.image_bytes = None
    /\ idx' = idx + 1
    /\ UNCHANGED <<doc, builder, mode, scale, page, ppc, out, xvars, fvars>>

\* html.append('</div>') / lines.append("</section>"); the page's markup is returned
EndPage ==
    /\ ppc = "elements" /\ idx > Len(page.elements)
    /\ out' = Append(out, Plain("end", 0, 0))
    /\ ppc' = "done"
    /\ UNCHANGED <<doc, builder, mode, scale, page, idx, xvars, fvars>>

PdfNext ==
    \/ Extract
    \/ BeginPage
    \/ BeginSemantic
    \/ HbSemanticText
    \/ HbSemanticSkip
    \/ HbText
    \/ HbRect
    \/ HbRectRaises
    \/ HbImage
    \/ HbSkip
    \/ PaText
    \/ PaRect
    \/ PaImage
    \/ PaSkip
    \/ EndPage

\* ================================================================== xlsx_to_html.py

\* Widths are fixed-point hundredths of a spreadsheet width unit (10 = 1000);
\* WidthNone is a ColumnDimension whose width attribute is None.
WidthNone == 0 - 1

\* openpyxl keys column_dimensions by column letter; letters are sequences of code
\* points, 'A' = <<65>>, 'Z' = <<90>>, 'AA' = <<65, 65>>.
ColumnLetter(i) ==
    IF i <= 26 THEN <<64 + i>>
    ELSE <<64 + ((i - 1) \div 26), 65 + ((i - 1) % 26)>>

\* chr(64+col)
Chr64(k) == <<64 + k>>

\* dim = ws.column_dimensions.get(chr(64+col)); width = getattr(dim,'width',10) or 10
ColumnWidth(sheet, k) ==
    LET key == Chr64(k)
        w   == IF key \in DOMAIN sheet.column_dimensions
               THEN sheet.column_dimensions[key]
               ELSE 1000
    IN  IF w = WidthNone \/ w = 0 THEN 1000 ELSE w

\* px = int((width + 0.72) * 7): truncation (the operand is positive)
WidthPx(w) == ((w + 72) * 7) \div 100

\* merges[(mr.min_row, mr.min_col)] = (mr.size['rows'], mr.size['columns']),
\* in iteration order: a later range with the same anchor overwrites.
RECURSIVE BuildMergesDict(_, _)
BuildMergesDict(ranges, d) ==
    IF ranges = <<>> THEN d
    ELSE LET mr  == Head(ranges)
             key == <<mr.min_row, mr.min_col>>
             val == <<mr.rows, mr.cols>>
             d2  == [k \in DOMAIN d \cup {key} |-> IF k = key THEN val ELSE d[k]]
         IN  BuildMergesDict(Tail(ranges), d2)

\* Mutant of SkipCell: the row test is dropped to the anchor's own row.
SkipCellAnchorRowOnly(m, row, cl) ==
    \E k \in DOMAIN m :
        /\ k[1] = row
        /\ k[2] <= cl  /\ cl  < k[2] + m[k][2]
        /\ ~(k[1] = row /\ k[2] = cl)

\* rr <= r < rr+rs and cc <= c < cc+cs and not (rr==r and cc==c), for some entry
SkipCell(m, row, cl) ==
    \E k \in DOMAIN m :
        /\ k[1] <= row /\ row < k[1] + m[k][1]
        /\ k[2] <= cl  /\ cl  < k[2] + m[k][2]
        /\ ~(k[1] = row /\ k[2] = cl)

\* Mutant of SpanOf: the two spans are unpacked in the wrong order.
SpanOfSwapped(m, row, cl) ==
    IF <<row, cl>> \in DOMAIN m THEN <<m[<<row, cl>>][2], m[<<row, cl>>][1]>> ELSE <<1, 1>>

\* rowspan, colspan = merges[(r, c)] if (r, c) in merges else 1, 1
SpanOf(m, row, cl) == IF <<row, cl>> \in DOMAIN m THEN m[<<row, cl>>] ELSE <<1, 1>>

\* One entry of the list html.  A <td> records the position it was emitted for and
\* its attributes: rowspan / colspan are written only when > 1 (0 = not written).
ColTag(px)  == [tag |-> "col", r |-> 0, c |-> 0, rowspan |-> 0, colspan |-> 0, w |-> px]
Tag(name)   == [tag |-> name, r |-> 0, c |-> 0, rowspan |-> 0, colspan |-> 0, w |-> 0]
TdTag(row, cl, rs, cs) ==
    [tag |-> "td", r |-> row, c |-> cl,
     rowspan |-> IF rs > 1 THEN rs ELSE 0,
     colspan |-> IF cs > 1 THEN cs ELSE 0, w |-> 0]

\* ---- the worksheets drawn as inputs ----
Regions(mr, mc) ==
    {[min_row |-> a, min_col |-> b, rows |-> h, cols |-> w] :
        a \in 1..mr, b \in 1..mc, h \in 1..mr, w \in 1..mc}

\* openpyxl creates a cell for every position of a merged range, so max_row and
\* max_column always contain every range; a range spans at least two cells.
GridRegions(mr, mc) ==
    {g \in Regions(mr, mc) :
        /\ g.min_row + g.rows - 1 <= mr
        /\ g.min_col + g.cols - 1 <= mc
        /\ g.rows * g.cols > 1}

RegionKey(g) == ((g.min_row * 100 + g.min_col) * 100 + g.rows) * 100 + g.cols

\* The iteration order of ws.merged_cells.ranges: one order per set of ranges.
RECURSIVE OrderedRanges(_, _)
OrderedRanges(S, n) ==
    IF n = 0 THEN {<<>>}
    ELSE LET shorter == OrderedRanges(S, n - 1)
             longest == {t \in shorter : Len(t) = n - 1}
         IN  shorter \cup
             UNION {{Append(s, x) : x \in {y \in S : \A i \in 1..(n - 1) :
                                               RegionKey(s[i]) < RegionKey(y)}} :
                    s \in longest}

Sheet(mr, mc, ranges, dims) ==
    [max_row |-> mr, max_column |-> mc, ranges |-> ranges, column_dimensions |-> dims]

NoDims == [k \in {} |-> 0]

\* Sheets with merged ranges and default column widths.
MergeSheets ==
    UNION {{Sheet(mr, mc, rg, NoDims) : rg \in OrderedRanges(GridRegions(mr, mc), MaxMerges)} :
             mr \in 1..MaxRow, mc \in 1..MaxCol}

\* Column widths a workbook can carry: unset (None), 0 (hidden), 8.43, 10.5, 20.
SheetWidths == {WidthNone, 0, 843, 1050, 2000}

\* Sheets of one or two rows, narrow or wide, with at most one merged range (A1:A2)
\* and one column of the sheet whose width is recorded.
WidthSheets ==
    UNION {{Sheet(mr, mc, rg, [k \in {ColumnLetter(i)} |-> w]) :
               rg \in OrderedRanges(GridRegions(mr, 1), 1), i \in 1..mc} :
           mr \in 1..2, mc \in {1, 2, MaxWideCol - 1, MaxWideCol}, w \in SheetWidths}

XlsxIdle ==
    /\ ws = Sheet(0, 0, <<>>, NoDims)
    /\ xpc = "idle" /\ col = 0 /\ col_widths = <<>> /\ merges = NoDims
    /\ r = 0 /\ c = 0 /\ html = <<>>

XlsxStart(sheets) ==
    /\ ws \in sheets
    /\ xpc = "cols" /\ col = 1 /\ col_widths = <<>> /\ merges = NoDims
    /\ r = 0 /\ c = 0 /\ html = <<>>

\* for col in range(1, ws.max_column+1): ... col_widths.append(px)
ColWidthStep ==
    /\ xpc = "cols" /\ col <= ws.max_column
    /\ col_widths' = Append(col_widths, WidthPx(ColumnWidth(ws, col)))
    /\ col' = col + 1
    /\ UNCHANGED <<ws, xpc, merges, r, c, html, pvars, fvars>>

\* html = ["<table class='sheet'>", "<colgroup>"]; one <col> per width; "</colgroup>"
EmitColgroup ==
    /\ xpc = "cols" /\ col > ws.max_column
    /\ html' = <<Tag("table"), Tag("colgroup")>>
               \o [i \in 1..Len(col_widths) |-> ColTag(col_widths[i])]
               \o <<Tag("/colgroup")>>
    /\ xpc' = "merges"
    /\ UNCHANGED <<ws, col, col_widths, merges, r, c, pvars, fvars>>

\* merges = {}; for mr in ws.merged_cells.ranges: merges[key] = ...; r starts at 1
BuildMerges ==
    /\ xpc = "merges"
    /\ merges' = BuildMergesDict(ws.ranges, NoDims)
    /\ r' = 1
    /\ xpc' = "row"
    /\ UNCHANGED <<ws, col, col_widths, c, html, pvars, fvars>>

\* for r in range(1, ws.max_row+1): html.append("<tr>"); c = 1
RowStart ==
    /\ xpc = "row" /\ r <= ws.max_row
    /\ html' = Append(html, Tag("tr"))
    /\ c' = 1
    /\ xpc' = "cell"
    /\ UNCHANGED <<ws, col, col_widths, merges, r, pvars, fvars>>

\* while c <= ws.max_column: covered by a merge and not its top-left: c += 1; continue
CellSkip ==
    /\ xpc = "cell" /\ c <= ws.max_column
    /\ SkipCell(merges, r, c)
    /\ c' = c + 1
    /\ UNCHANGED <<ws, xpc, col, col_widths, merges, r, html, pvars, fvars>>

\* otherwise: html.append("<td ...>"); c += colspan
CellEmit ==
    /\ xpc = "cell" /\ c <= ws.max_column
    /\ ~SkipCell(merges, r, c)
    /\ LET span == SpanOf(merges, r, c)
       IN  /\ html' = Append(html, TdTag(r, c, span[1], span[2]))
           /\ c' = c + span[2]
    /\ UNCHANGED <<ws, xpc, col, col_widths, merges, r, pvars, fvars>>

\* the while loop ends: html.append("</tr>"); next r
RowEnd ==
    /\ xpc = "cell" /\ c > ws.max_column
    /\ html' = Append(html, Tag("/tr"))
    /\ r' = r + 1
    /\ xpc' = "row"
    /\ UNCHANGED <<ws, col, col_widths, merges, c, pvars, fvars>>

\* the for loop ends: html.append("</table>"); return
XlsxFinish ==
    /\ xpc = "row" /\ r > ws.max_row
    /\ html' = Append(html, Tag("/table"))
    /\ xpc' = "done"
    /\ UNCHANGED <<ws, col, col_widths, merges, r, c, pvars, fvars>>

XlsxNext ==
    \/ ColWidthStep
    \/ EmitColgroup
    \/ BuildMerges
    \/ RowStart
    \/ CellSkip
    \/ CellEmit
    \/ RowEnd
    \/ XlsxFinish

PdfIdle ==
    /\ doc = None /\ builder = None /\ mode = None /\ scale = None
    /\ page = None /\ ppc = "idle" /\ idx = 0 /\ out = <<>>

FnIdle == fin = None /\ fout = None /\ fpc = "idle"

\* convert_xlsx_to_html on a sheet with merged ranges
InitXlsx == XlsxStart(MergeSheets) /\ PdfIdle /\ FnIdle
SpecXlsx == InitXlsx /\ [][XlsxNext]_vars

\* convert_xlsx_to_html on a sheet with recorded column widths
InitCols == XlsxStart(WidthSheets) /\ PdfIdle /\ FnIdle
SpecCols == InitCols /\ [][XlsxNext]_vars

\* the PDF path on one decoded page
InitPdf ==
    /\ XlsxIdle /\ FnIdle
    /\ doc \in Docs
    /\ \E cfg \in PdfConfigs : builder = cfg.builder /\ mode = cfg.mode /\ scale = cfg.scale
    /\ page = None /\ ppc = "extract" /\ idx = 0 /\ out = <<>>
SpecPdf == InitPdf /\ [][PdfNext]_vars

\* ================================================================== pure helpers, applied

MaxTextLen  == 3
MaxColorLen == 4

NoResult == [by |-> "", val |-> <<>>]

CallIdle == XlsxIdle /\ PdfIdle

\* ---- _css_escape ----
EscChars == {"&", "<", ">", "a", ";"}

CallHbCssEscape ==
    /\ fpc = "ready"
    /\ fout' = [by |-> "html_builder", val |-> HbCssEscape(fin)]
    /\ fpc' = "done"
    /\ UNCHANGED <<fin, xvars, pvars>>

CallPaCssEscape ==
    /\ fpc = "ready"
    /\ fout' = [by |-> "pdf_analyzer", val |-> PaCssEscape(fin)]
    /\ fpc' = "done"
    /\ UNCHANGED <<fin, xvars, pvars>>

EscapeNext ==
    \/ CallHbCssEscape
    \/ CallPaCssEscape

InitEscape ==
    /\ CallIdle
    /\ fin \in SeqsUpTo(EscChars, MaxTextLen)
    /\ fout = NoResult /\ fpc = "ready"
SpecEscape == InitEscape /\ [][EscapeNext]_vars

\* ---- _rgba_to_hex ----
Components ==
    {IntC(0), IntC(255), IntC(300), IntC(0 - 1),
     FloatC(500), FloatC(1000), FloatC(2500), StrC, NoneC}

ColorInputs ==
    {Raw("none", <<>>), Raw("int", <<>>), Raw("other", <<>>)}
    \cup {Raw("seq", v) : v \in SeqsUpTo(Components, MaxColorLen)}

CallRgbaToHex ==
    /\ fpc = "ready"
    /\ fout' = RgbaToHex(fin)
    /\ fpc' = "done"
    /\ UNCHANGED <<fin, xvars, pvars>>

InitColor ==
    /\ CallIdle
    /\ fin \in ColorInputs
    /\ fout = Returned(<<>>) /\ fpc = "ready"
SpecColor == InitColor /\ [][CallRgbaToHex]_vars

\* ---- _border_css_from ----
ChannelVals == {0, 121, 189, 226, 230, 240, 242, 248, 255}

HexColor(rr, gg, bb) == <<"#">> \o Format02X(rr) \o Format02X(gg) \o Format02X(bb)

CanonicalColors ==
    {TRANSPARENT} \cup {HexColor(rr, gg, bb) : rr \in ChannelVals, gg \in ChannelVals, bb \in ChannelVals}

Thicknesses == {0, FxFrac(1, 4), Fx(1), Fx(5)}

CallBorderCssFrom ==
    /\ fpc = "ready"
    /\ fout' = BorderCssFrom(fin.stroke, fin.thickness)
    /\ fpc' = "done"
    /\ UNCHANGED <<fin, xvars, pvars>>

InitBorder ==
    /\ CallIdle
    /\ fin \in [stroke : CanonicalColors, thickness : Thicknesses]
    /\ fout = NoBorder /\ fpc = "ready"
SpecBorder == InitBorder /\ [][CallBorderCssFrom]_vars

\* ------------------------------------------------------------------ PDF claims

Rendered == {i \in 1..Len(out) : out[i].kind \in {"text", "rect", "image"}}

\* C2: rendering an extracted page with html_builder in absolute mode never raises,
\* and a rect whose stroke is transparent is written without a border.
C2_NoFatalErrorPath ==
    (Hb /\ mode = "absolute") =>
        /\ ppc # "raised"
        /\ \A i \in Rendered :
               (out[i].kind = "rect" /\ page.elements[out[i].el].stroke = TRANSPARENT) =>
                   (~out[i].border.decl \/ out[i].border.style = "none")

StackOf(kind) == IF kind = "text" THEN 10 ELSE IF kind = "image" THEN 5 ELSE 1

\* C4: in absolute mode every element either builder writes carries the z-index of
\* its kind: text 10, image 5, rect 1.
C4_StackingOrder ==
    mode = "absolute" => \A i \in Rendered : out[i].z = StackOf(out[i].kind)

\* clamp(t * s * 0.75, 0.2, 3.0)
ClampedThickness(t, sc) ==
    Max(FxFrac(1, 5), Min(MulRat(MulRat(t, sc.num, sc.den), 3, 4), Fx(3)))

\* C7: a rect with a non-transparent stroke rendered by pdf_analyzer has border
\* thickness clamp(t*s*0.75, 0.2, 3.0) for its raw thickness t > 0, and 0.5 when t is
\* absent or zero.
C7_BorderThickness ==
    Pa => \A i \in Rendered :
              LET e == page.elements[out[i].el]
              IN  (out[i].kind = "rect" /\ e.stroke # TRANSPARENT) =>
                      /\ out[i].border.decl
                      /\ out[i].border.th =
                             IF "thickness" \in DOMAIN e /\ e.thickness > 0
                             THEN ClampedThickness(e.thickness, scale)
                             ELSE FxFrac(1, 2)

\* C8: in absolute mode a text with bbox (x0, y0, x1, y1) and font size f is written
\* at left = x0*s and top = y0*s - f*s*0.8.
C8_TextPosition ==
    mode = "absolute" =>
        \A i \in Rendered :
            LET e == page.elements[out[i].el]
            IN  out[i].kind = "text" =>
                    /\ out[i].left = MulRat(e.bbox[1], scale.num, scale.den)
                    /\ out[i].top = MulRat(e.bbox[2], scale.num, scale.den)
                                    - MulRat(MulRat(e.font.size, scale.num, scale.den), 4, 5)

\* ------------------------------------------------------------------ helper claims

EscapeChar(ch) == IF ch = "&" THEN AMP ELSE IF ch = "<" THEN LT ELSE IF ch = ">" THEN GT ELSE <<ch>>

RECURSIVE EscapeEach(_)
EscapeEach(text) == IF text = <<>> THEN <<>> ELSE EscapeChar(Head(text)) \o EscapeEach(Tail(text))

StartsWith(text, pre) == Len(text) >= Len(pre) /\ SubSeq(text, 1, Len(pre)) = pre

\* one pass of un-escaping, left to right
RECURSIVE Unescape(_)
Unescape(text) ==
    IF text = <<>> THEN <<>>
    ELSE IF StartsWith(text, AMP) THEN <<"&">> \o Unescape(SubSeq(text, 6, Len(text)))
    ELSE IF StartsWith(text, LT) THEN <<"<">> \o Unescape(SubSeq(text, 5, Len(text)))
    ELSE IF StartsWith(text, GT) THEN <<">">> \o Unescape(SubSeq(text, 5, Len(text)))
    ELSE <<Head(text)>> \o Unescape(Tail(text))

\* C3: both _css_escape functions replace & by &amp;, < by &lt; and > by &gt; and
\* leave every other character alone, so un-escaping the result once gives the text.
C3_EscapeRoundTrip ==
    fpc = "done" => /\ fout.val = EscapeEach(fin)
                    /\ Unescape(fout.val) = fin

IsHex6(str) ==
    /\ Len(str) = 7 /\ str[1] = "#"
    /\ \A i \in 2..7 : \E j \in 1..16 : HexDigits[j] = str[i]

Malformed(rgba) ==
    \/ rgba.k = "other"
    \/ rgba.k = "seq" /\ Len(rgba.vals) < 3
    \/ rgba.k = "seq" /\ Len(rgba.vals) >= 3
                      /\ \E i \in 1..3 : rgba.vals[i].t \in {"str", "none"}

\* C5: _rgba_to_hex never raises, its result is transparent or #RRGGBB in uppercase
\* hex digits, and malformed input gives #000000.
C5_ColorResolverTotal ==
    fpc = "done" => /\ ~fout.raised
                    /\ fout.val = TRANSPARENT \/ IsHex6(fout.val)
                    /\ Malformed(fin) => fout.val = BLACK

\* the channels of a canonical #RRGGBB
Channels(hex) == <<HexDigitsVal(SubSeq(hex, 2, 3)), HexDigitsVal(SubSeq(hex, 4, 5)),
                   HexDigitsVal(SubSeq(hex, 6, 7))>>

\* 1000 * (0.299 R + 0.587 G + 0.114 B), exactly
Luma1000(hex) == 299 * Channels(hex)[1] + 587 * Channels(hex)[2] + 114 * Channels(hex)[3]

\* C6 as stated: the result is none iff the stroke is transparent; otherwise the style
\* is solid exactly when 0.299R + 0.587G + 0.114B <= 230 and dotted exactly when > 230.
C6_StyleByLuminance ==
    fpc = "done" =>
        /\ fout.none <=> fin.stroke = TRANSPARENT
        /\ fin.stroke # TRANSPARENT =>
               /\ fout.style = "solid"  <=> Luma1000(fin.stroke) <= 230000
               /\ fout.style = "dotted" <=> Luma1000(fin.stroke) > 230000

F8F279 == HexColor(248, 242, 121)

\* What does hold of _border_css_from: the result is none iff the stroke is
\* transparent; otherwise the style is solid exactly when the double-precision sum
\* 0.299*R + 0.587*G + 0.114*B is <= 230 and dotted otherwise, which is the exact
\* comparison for every colour but #F8F279 (exactly 230, computed as
\* 230.00000000000003: dotted).
C6_StyleByDoubleLuminance ==
    fpc = "done" =>
        /\ fout.none <=> fin.stroke = TRANSPARENT
        /\ fin.stroke # TRANSPARENT =>
               LET ch == Channels(fin.stroke)
               IN  /\ fout.style \in {"solid", "dotted"}
                   /\ fout.style = "solid" <=> LimbsLeq(LumaSum(ch[1], ch[2], ch[3]), DInt(230))
                   /\ fin.stroke # F8F279 =>
                          (fout.style = "solid" <=> Luma1000(fin.stroke) <= 230000)
                   /\ fin.stroke = F8F279 => fout.style = "dotted"

\* ------------------------------------------------------------------ xlsx claims

\* Two ranges share no position.
Disjoint(g, h) ==
    \/ g.min_row + g.rows <= h.min_row \/ h.min_row + h.rows <= g.min_row
    \/ g.min_col + g.cols <= h.min_col \/ h.min_col + h.cols <= g.min_col

NonOverlapping(ranges) ==
    \A i, j \in 1..Len(ranges) : i < j => Disjoint(ranges[i], ranges[j])

InGrid(sheet) ==
    \A i \in 1..Len(sheet.ranges) :
        LET g == sheet.ranges[i]
        IN  /\ 1 <= g.min_row /\ g.min_row + g.rows - 1 <= sheet.max_row
            /\ 1 <= g.min_col /\ g.min_col + g.cols - 1 <= sheet.max_column

Inside(g, row, cl) ==
    /\ g.min_row <= row /\ row < g.min_row + g.rows
    /\ g.min_col <= cl  /\ cl  < g.min_col + g.cols

Tds == {i \in 1..Len(html) : html[i].tag = "td"}

\* The span a <td> has in the table: the attribute, or 1 when it is not written.
RowSpan(td) == IF td.rowspan = 0 THEN 1 ELSE td.rowspan
ColSpan(td) == IF td.colspan = 0 THEN 1 ELSE td.colspan

TdsAt(row, cl) == {i \in Tds : html[i].r = row /\ html[i].c = cl}

\* C1: with pairwise non-overlapping merge ranges, every range gets exactly one cell,
\* emitted at its anchor with rowspan = rows and colspan = columns, and no cell is
\* ever emitted for another position inside the range.
C1_MergeAnchorOnly ==
    NonOverlapping(ws.ranges) =>
        \A k \in 1..Len(ws.ranges) :
            LET g == ws.ranges[k]
            IN  /\ \A i \in Tds :
                       Inside(g, html[i].r, html[i].c) =>
                           /\ html[i].r = g.min_row /\ html[i].c = g.min_col
                           /\ RowSpan(html[i]) = g.rows
                           /\ ColSpan(html[i]) = g.cols
                /\ Cardinality(TdsAt(g.min_row, g.min_col)) <= 1
                /\ xpc = "done" => Cardinality(TdsAt(g.min_row, g.min_col)) = 1

\* The 2x2 range of a finished 2x2 table was emitted as one cell with both spans,
\* and no other cell of the table was emitted.
C1_Witness ==
    /\ xpc = "done" /\ NonOverlapping(ws.ranges) /\ Len(ws.ranges) = 1
    /\ ws.ranges[1].rows = 2 /\ ws.ranges[1].cols = 2
    /\ \E i \in Tds : html[i].rowspan = 2 /\ html[i].colspan = 2
    /\ Cardinality(Tds) = 1

Covers(td, row, cl) ==
    /\ td.r <= row /\ row < td.r + RowSpan(td)
    /\ td.c <= cl  /\ cl  < td.c + ColSpan(td)

WalkPre == NonOverlapping(ws.ranges) /\ InGrid(ws)

C10_State ==
    WalkPre =>
        /\ xpc = "cell" => c <= ws.max_column + 1
        /\ xpc = "done" =>
               \A row \in 1..ws.max_row, cl \in 1..ws.max_column :
                   Cardinality({i \in Tds : Covers(html[i], row, cl)}) = 1

C10_Step ==
    (WalkPre /\ xpc = "cell" /\ xpc' = "cell") => c' > c

\* C10: with non-overlapping merge ranges inside the grid, c strictly increases at
\* every step of a row's column walk and the walk ends with c = max_column + 1, and
\* in the finished table every grid position lies in the rowspan x colspan rectangle
\* of exactly one emitted cell.
C10_WalkCoversGrid == [](C10_State) /\ [][C10_Step]_vars

\* A finished 2x2 table with two ranges, one of them wider than tall, written as
\* two cells for its four positions.
C10_Witness ==
    /\ xpc = "done" /\ WalkPre /\ Len(ws.ranges) = 2
    /\ ws.max_row = 2 /\ ws.max_column = 2
    /\ \E k \in 1..2 : ws.ranges[k].cols > ws.ranges[k].rows
    /\ Cardinality(Tds) = 2

\* Python round(): to nearest, ties to even, of n / d
PyRound(n, d) ==
    LET q   == n \div d
        rem == n % d
    IN  IF 2 * rem < d THEN q
        ELSE IF 2 * rem > d THEN q + 1
        ELSE IF q % 2 = 0 THEN q ELSE q + 1

\* The width the sheet records for column k (10 when unset: no entry, None or 0).
OwnWidth(sheet, k) ==
    IF ColumnLetter(k) \in DOMAIN sheet.column_dimensions
       /\ sheet.column_dimensions[ColumnLetter(k)] \notin {WidthNone, 0}
    THEN sheet.column_dimensions[ColumnLetter(k)]
    ELSE 1000

Cols == {i \in 1..Len(html) : html[i].tag = "col"}

\* C9: once the header is written, the column group holds one entry per column
\* 1..max_column, in column order and before any row, and entry k is
\* round((width_k + 0.72) * 7) for column k's own width (10 when unset).
C9_ColumnGroupWidths ==
    xpc \in {"merges", "row", "cell", "done"} =>
        /\ Cols = 3..(ws.max_column + 2)
        /\ \A i \in 1..Len(html) : html[i].tag = "tr" => i > ws.max_column + 2
        /\ \A k \in 1..ws.max_column :
               html[k + 2].w = PyRound((OwnWidth(ws, k) + 72) * 7, 100)

====
